---- MODULE Spec2Model ----
(***************************************************************************)
(* Model of the confirmation engine of the network crate                   *)
(* (crates/net/src/connection/confirms.rs): the per-peer Buffer of packed  *)
(* datagram ids (push / ready / flush) and the Confirmations front end     *)
(* (received / send_confirms) built on the connection book.                *)
(*                                                                         *)
(* Time is an integer number of milliseconds.  Bytes are 0..255.           *)
(***************************************************************************)
EXTENDS Integers, Sequences, FiniteSets, TLC

VARIABLES
    buf,        \* the Buffer under test: [oldest, buffer, flushed]
    ret,        \* what the last Buffer::flush returned: [some, data]
    rdy,        \* what the last Buffer::ready returned
    now,        \* the time argument of the latest call
    op,         \* name of the latest call
    pushed,     \* history: ids handed to Buffer::push, in call order
    chunks,     \* history: the slices returned by Buffer::flush, in call order
    cap,        \* the max_size argument of the latest Buffer::flush
    caps,       \* history: the max_size arguments given to Buffer::flush
    order,      \* the ids the caller delivers, in delivery order
    mixed,      \* history: a push was made after flush had returned a slice
    first,      \* history: time argument of the push that found the Vec empty
    streak,     \* history: pushes made at time `first` since the Vec was empty,
                \* with no flush in between (0 when that is not the case)
    twin,       \* a second Buffer, made at another wall-clock time, that gets
                \* the same calls as buf: [wall, other, buf, rdy, ret]
    MAX_MESSAGE_SIZE,   \* messages::MAX_MESSAGE_SIZE of the build
    book,       \* Confirmations.book: the records [addr, last_contact, conn]
    next_index, \* the cursor of ConnectionBook::next
    call,       \* the latest call on Confirmations: its arguments and outcome
    got,        \* history: the ids passed to received, per address
    accepted    \* history: the datagrams the outbound channel has accepted

\* the state of the calls on one Buffer
bvars == <<buf, ret, rdy, pushed, chunks, cap, caps, mixed, first, streak, twin>>
\* the state of Confirmations
cvars == <<MAX_MESSAGE_SIZE, book, next_index, call, got, accepted>>

vars == <<bvars, cvars, now, op, order>>

-----------------------------------------------------------------------------
(* Program constants *)

MAX_BUFF_SIZE == 96
MAX_BUFF_AGE == 100
\* usize::MAX, as wide as the model's integers allow; only the low bits of
\* usize::MAX - 3 matter for the sizes that occur.
USIZE_MAX == 2147483647
\* the staleness window of the connection book, on the scale of the model's
\* time arguments
MAX_CONN_AGE == 50

(* Bounds of the model *)

\* pushes per run of the Buffer specification
MaxPush == 5
\* slices returned by flush per run of the Buffer specification
MaxChunks == 5
\* ids the fill specification lets the Vec hold
MaxFill == 33
\* granularity and horizon of the time arguments
TimeStep == 100
MaxTicks == 1

\* receptions per run of the Confirmations specification
MaxReceived == 4
\* datagrams a channel that closes during a call accepts before it closes
MaxAccept == 1

Times == {k * TimeStep : k \in 0..MaxTicks}
\* the values Instant::now() returns when a Buffer is made
WallClocks == {0, TimeStep * MaxTicks}
\* max_size arguments given to flush: below one id, a multiple of 4 that is not
\* a multiple of 3, and the caps of tests::test_buffer (12, 13, 14 all give 12)
Caps == {1, 8, 13}
\* max_size arguments of the fill specification: below one id, and the test's
FillCaps == {1, 13}
\* the ids of the reliable messages, in the orders in which a run may deliver
\* them (1042 and 43 are the test's); every id is delivered once
IdOrders == {<<1042, 43, 65793, 131587, 8421504, 197121>>,
             <<197121, 8421504, 43, 65793, 1042, 131587>>}
\* the peers
Addrs == {"10.0.0.1:8082", "10.0.0.2:8082"}
\* messages::MAX_MESSAGE_SIZE is set outside confirms.rs: the builds considered
\* have a payload of two ids and two bytes, of four ids, and of 508 bytes
MessageSizes == {8, 12, 508}
\* the Sender handed to send_confirms: its channel stays open during the
\* call, or is closed after accepting `left` more datagrams
Channels ==
    {[closes |-> FALSE, left |-> 0]} \cup {[closes |-> TRUE, left |-> n] : n \in 0..MaxAccept}
\* the fill specification pushes one id over and over: ready() reads lengths
\* and times only
FillIds == {100}

-----------------------------------------------------------------------------
(* Helpers *)

Min(a, b) == IF a <= b THEN a ELSE b

Range(s) == {s[i] : i \in 1..Len(s)}

RECURSIVE BitAnd(_, _)
\* a & b on non-negative integers
BitAnd(a, b) ==
    IF a = 0 \/ b = 0 THEN 0
    ELSE (IF a % 2 = 1 /\ b % 2 = 1 THEN 1 ELSE 0) + 2 * BitAnd(a \div 2, b \div 2)

\* DatagramId::to_bytes: three bytes, most significant first
to_bytes(id) == <<(id \div 65536) % 256, (id \div 256) % 256, id % 256>>

\* Vec::truncate
truncate(s, len) == IF len < Len(s) THEN SubSeq(s, 1, len) ELSE s

-----------------------------------------------------------------------------
(* Buffer *)

\* Buffer::new; `wall` is the value Instant::now() returns
NewBuffer(wall) == [oldest |-> wall, buffer |-> <<>>, flushed |-> 0]

\* push that restarts the age of the buffer on every id
push_restart(b, time, id) ==
    LET bytes == b.buffer \o to_bytes(id)
    IN  [oldest |-> time, buffer |-> bytes, flushed |-> Len(bytes)]

push(b, time, id) ==
    LET bytes == b.buffer \o to_bytes(id)
    IN  [oldest  |-> IF b.buffer = <<>> THEN time ELSE b.oldest,
         buffer  |-> bytes,
         flushed |-> Len(bytes)]

\* ready with both comparisons made strict
ready_strict(b, time) ==
    IF b.buffer = <<>> THEN FALSE
    ELSE (b.oldest + MAX_BUFF_AGE) < time \/ Len(b.buffer) > MAX_BUFF_SIZE

\* ready without the test for an empty Vec
ready_unguarded(b, time) ==
    (b.oldest + MAX_BUFF_AGE) <= time \/ Len(b.buffer) >= MAX_BUFF_SIZE

ready(b, time) ==
    IF b.buffer = <<>> THEN FALSE
    ELSE (b.oldest + MAX_BUFF_AGE) <= time \/ Len(b.buffer) >= MAX_BUFF_SIZE

\* flush without the truncation of the slice returned by the previous call
flush_keep(b, max_size) ==
    IF b.buffer = <<>> \/ b.flushed = 0
    THEN [buf |-> b, some |-> b.buffer # <<>>, data |-> b.buffer]
    ELSE LET size == Min(b.flushed, BitAnd(max_size, USIZE_MAX - 3))
             mark == b.flushed - size
         IN  [buf  |-> [b EXCEPT !.flushed = mark],
              some |-> TRUE,
              data |-> SubSeq(b.buffer, mark + 1, b.flushed)]

\* flush that hands out the front of the Vec instead of its end
flush_front(b, max_size) ==
    LET kept == truncate(b.buffer, b.flushed)
    IN  IF kept = <<>>
        THEN [buf |-> [b EXCEPT !.buffer = kept], some |-> FALSE, data |-> <<>>]
        ELSE LET size == Min(Len(kept), BitAnd(max_size, USIZE_MAX - 3))
                 mark == Len(kept) - size
             IN  [buf  |-> [b EXCEPT !.buffer = kept, !.flushed = mark],
                  some |-> TRUE,
                  data |-> SubSeq(kept, 1, size)]

\* Buffer::flush: the buffer afterwards and the returned Option<&[u8]>
flush(b, max_size) ==
    LET kept == truncate(b.buffer, b.flushed)
    IN  IF kept = <<>>
        THEN [buf |-> [b EXCEPT !.buffer = kept], some |-> FALSE, data |-> <<>>]
        ELSE LET size == Min(Len(kept), BitAnd(max_size, USIZE_MAX - 3))
                 mark == Len(kept) - size
             IN  [buf  |-> [b EXCEPT !.buffer = kept, !.flushed = mark],
                  some |-> TRUE,
                  data |-> SubSeq(kept, mark + 1, Len(kept))]

\* pending read off the drain cursor
pending_cursor(b) == b.flushed > 0

\* Connection::pending for Buffer
pending(b) == b.buffer # <<>>

-----------------------------------------------------------------------------
(* ConnectionBook<Buffer> *)

IndexOf(records, addr) ==
    IF \E i \in 1..Len(records) : records[i].addr = addr
    THEN CHOOSE i \in 1..Len(records) : records[i].addr = addr
    ELSE 0

\* ConnectionBook::update: the records afterwards; the record of `addr` is
\* created by the factory when absent and its last contact is set to `time`
update(records, time, addr, wall) ==
    IF IndexOf(records, addr) = 0
    THEN Append(records, [addr |-> addr, last_contact |-> time, conn |-> NewBuffer(wall)])
    ELSE [records EXCEPT ![IndexOf(records, addr)].last_contact = time]

\* ConnectionBook::next: one record per call in book order, None (and the
\* cursor back at the start) once the sweep is over
next(records, index) ==
    IF index >= Len(records)
    THEN [some |-> FALSE, index |-> 0, at |-> 0]
    ELSE [some |-> TRUE, index |-> index + 1, at |-> index + 1]

\* ConnectionBook::clean: the records afterwards; a record goes when it has no
\* pending work and its last contact is older than the staleness window
clean(records, time) ==
    SelectSeq(records,
              LAMBDA r : pending(r.conn) \/ ~(time - r.last_contact > MAX_CONN_AGE))

-----------------------------------------------------------------------------
(* Confirmations *)

\* OutDatagram::new(DatagramHeader::Confirmation, data.to_vec(), addr)
OutDatagram(data, addr) == [header |-> "Confirmation", data |-> data, addr |-> addr]

\* Sender::send on a channel: whether it accepts, and the channel afterwards
Accepts(chan) == ~chan.closes \/ chan.left > 0
AfterSend(chan) == IF chan.closes /\ chan.left > 0 THEN [chan EXCEPT !.left = @ - 1] ELSE chan

\* Confirmations::received: the records afterwards
received(records, time, addr, id, wall) ==
    LET touched == update(records, time, addr, wall)
        i == IndexOf(touched, addr)
    IN  [touched EXCEPT ![i].conn = push(@, time, id)]

RECURSIVE Drain_on(_, _, _, _)
\* the inner loop with the result of send ignored
Drain_on(b, addr, max_size, chan) ==
    LET r == flush(b, max_size)
        d == OutDatagram(r.data, addr)
    IN  IF ~r.some
        THEN [buf |-> r.buf, ok |-> TRUE, handed |-> <<>>, accepted |-> <<>>, chan |-> chan]
        ELSE LET rest == Drain_on(r.buf, addr, max_size, AfterSend(chan))
             IN  [rest EXCEPT !.ok = @ /\ Accepts(chan),
                              !.handed = <<d>> \o @,
                              !.accepted = (IF Accepts(chan) THEN <<d>> ELSE <<>>) \o @]

RECURSIVE Drain(_, _, _, _)
\* the inner loop of send_confirms on one buffer: flush until None, one
\* datagram per slice, out at once with the error of a refused send
Drain(b, addr, max_size, chan) ==
    LET r == flush(b, max_size)
        d == OutDatagram(r.data, addr)
    IN  IF ~r.some
        THEN [buf |-> r.buf, ok |-> TRUE, handed |-> <<>>, accepted |-> <<>>, chan |-> chan]
        ELSE IF ~Accepts(chan)
        THEN [buf |-> r.buf, ok |-> FALSE, handed |-> <<d>>, accepted |-> <<>>, chan |-> chan]
        ELSE LET rest == Drain(r.buf, addr, max_size, AfterSend(chan))
             IN  [rest EXCEPT !.handed = <<d>> \o @, !.accepted = <<d>> \o @]

RECURSIVE Sweep_all(_, _, _, _, _)
\* the outer loop without the test of ready
Sweep_all(records, index, time, max_size, chan) ==
    LET n == next(records, index)
    IN  IF ~n.some
        THEN [records |-> records, index |-> n.index, result |-> "Ok",
              handed |-> <<>>, accepted |-> <<>>]
        ELSE LET d == Drain(records[n.at].conn, records[n.at].addr, max_size, chan)
                 drained == [records EXCEPT ![n.at].conn = d.buf]
             IN  IF ~d.ok
                 THEN [records |-> drained, index |-> n.index, result |-> "Err",
                       handed |-> d.handed, accepted |-> d.accepted]
                 ELSE LET rest == Sweep_all(drained, n.index, time, max_size, d.chan)
                      IN  [rest EXCEPT !.handed = d.handed \o @,
                                       !.accepted = d.accepted \o @]

RECURSIVE Sweep(_, _, _, _, _)
\* the outer loop of send_confirms, from the cursor of the book
Sweep(records, index, time, max_size, chan) ==
    LET n == next(records, index)
    IN  IF ~n.some
        THEN [records |-> records, index |-> n.index, result |-> "Ok",
              handed |-> <<>>, accepted |-> <<>>]
        ELSE IF ~ready(records[n.at].conn, time)
        THEN Sweep(records, n.index, time, max_size, chan)
        ELSE LET d == Drain(records[n.at].conn, records[n.at].addr, max_size, chan)
                 drained == [records EXCEPT ![n.at].conn = d.buf]
             IN  IF ~d.ok
                 THEN [records |-> drained, index |-> n.index, result |-> "Err",
                       handed |-> d.handed, accepted |-> d.accepted]
                 ELSE LET rest == Sweep(drained, n.index, time, max_size, d.chan)
                      IN  [rest EXCEPT !.handed = d.handed \o @,
                                       !.accepted = d.accepted \o @]

NoChannel == [closes |-> FALSE, left |-> 0]
NoCall == [result |-> "-", handed |-> <<>>, chan |-> NoChannel, addr |-> "-", id |-> 0]

RECURSIVE Total(_, _)
\* the number of ids in the history `g` of the addresses `as`
Total(g, as) ==
    IF as = {} THEN 0
    ELSE LET a == CHOOSE x \in as : TRUE IN Len(g[a]) + Total(g, as \ {a})

\* received(time, addr, id), once per delivered reliable message
Received ==
    /\ Total(got, Addrs) < MaxReceived
    /\ \E time \in Times, addr \in Addrs, wall \in WallClocks :
          \E id \in {order[Len(got[addr]) + 1]} :
              /\ time >= now
              /\ book' = received(book, time, addr, id, wall)
              /\ got' = [got EXCEPT ![addr] = Append(@, id)]
              /\ call' = [NoCall EXCEPT !.addr = addr, !.id = id]
              /\ now' = time
    /\ op' = "received"
    /\ UNCHANGED <<MAX_MESSAGE_SIZE, next_index, accepted, bvars, order>>

\* send_confirms(time, datagrams), up to its return
SendConfirms ==
    /\ \E time \in Times, chan \in Channels :
          LET s == Sweep(book, next_index, time, MAX_MESSAGE_SIZE, chan)
          IN  /\ time >= now
              /\ book' = s.records
              /\ next_index' = s.index
              /\ accepted' = accepted \o s.accepted
              /\ call' = [NoCall EXCEPT !.result = s.result, !.handed = s.handed,
                                        !.chan = chan]
              /\ now' = time
    /\ op' = "send_confirms"
    /\ UNCHANGED <<MAX_MESSAGE_SIZE, got, bvars, order>>

\* clean(time)
Clean ==
    /\ \E time \in Times :
          /\ time >= now
          /\ book' = clean(book, time)
          /\ now' = time
    /\ call' = NoCall
    /\ op' = "clean"
    /\ UNCHANGED <<MAX_MESSAGE_SIZE, next_index, got, accepted, bvars, order>>

\* no Confirmations in the specifications of one Buffer
IdleConfirmations ==
    /\ MAX_MESSAGE_SIZE \in {12}
    /\ book = <<>>
    /\ next_index = 0
    /\ call = NoCall
    /\ got = [a \in Addrs |-> <<>>]
    /\ accepted = <<>>

-----------------------------------------------------------------------------
(* Calls on one Buffer *)

Push(time, id) ==
    /\ time >= now
    /\ buf' = push(buf, time, id)
    /\ now' = time
    /\ op' = "push"
    /\ first' = IF buf.buffer = <<>> THEN time ELSE first
    /\ streak' = IF buf.buffer = <<>> THEN 1
                 ELSE IF streak > 0 /\ time = first THEN streak + 1 ELSE 0
    /\ UNCHANGED <<ret, rdy, cap, cvars>>

Ready(time) ==
    /\ time >= now
    /\ rdy' = ready(buf, time)
    /\ now' = time
    /\ op' = "ready"
    /\ UNCHANGED <<buf, ret, pushed, chunks, cap, caps, mixed, order, first, streak, cvars>>

Flush(max_size) ==
    LET r == flush(buf, max_size)
    IN  /\ buf' = r.buf
        /\ ret' = [some |-> r.some, data |-> r.data]
        /\ cap' = max_size
        /\ op' = "flush"
        /\ streak' = 0
        /\ UNCHANGED <<rdy, now, first, cvars>>

\* One Buffer, every call recorded
BufPush ==
    /\ Len(pushed) < MaxPush
    /\ \E time \in Times, id \in {order[Len(pushed) + 1]} :
          /\ Push(time, id)
          /\ pushed' = Append(pushed, id)
    /\ mixed' = (mixed \/ chunks # <<>>)
    /\ UNCHANGED <<chunks, caps, order, twin>>

BufFlush ==
    /\ Len(chunks) < MaxChunks
    /\ \E max_size \in Caps :
          /\ Flush(max_size)
          /\ caps' = caps \cup {max_size}
    /\ chunks' = IF ret'.some THEN Append(chunks, ret'.data) ELSE chunks
    /\ UNCHANGED <<pushed, mixed, order, twin>>

\* One Buffer filled up to the size threshold, nothing recorded
FillPush ==
    /\ Len(buf.buffer) < 3 * MaxFill
    /\ \E time \in Times, id \in FillIds : Push(time, id)
    /\ UNCHANGED <<pushed, chunks, caps, mixed, order, twin>>

FillFlush ==
    /\ \E max_size \in FillCaps : Flush(max_size)
    /\ UNCHANGED <<pushed, chunks, caps, mixed, order, twin>>

FillReady == (\E time \in Times : Ready(time)) /\ UNCHANGED twin

\* no second Buffer
NoTwin ==
    [wall |-> 0, other |-> 0, buf |-> NewBuffer(0), rdy |-> FALSE,
     ret |-> [some |-> FALSE, data |-> <<>>]]

\* Two Buffers made at the wall-clock times `wall` and `other`, given the
\* same calls with the same arguments
TwinPush ==
    /\ Len(buf.buffer) < 3 * MaxFill
    /\ \E time \in Times, id \in FillIds :
          /\ Push(time, id)
          /\ twin' = [twin EXCEPT !.buf = push(@, time, id)]
    /\ UNCHANGED <<pushed, chunks, caps, mixed, order>>

TwinFlush ==
    /\ \E max_size \in FillCaps :
          /\ Flush(max_size)
          /\ twin' = [twin EXCEPT
                         !.buf = flush(twin.buf, max_size).buf,
                         !.ret = [some |-> flush(twin.buf, max_size).some,
                                  data |-> flush(twin.buf, max_size).data]]
    /\ UNCHANGED <<pushed, chunks, caps, mixed, order>>

TwinReady ==
    \E time \in Times :
        /\ Ready(time)
        /\ twin' = [twin EXCEPT !.rdy = ready(twin.buf, time)]

InitCalls ==
    /\ IdleConfirmations
    /\ \E wall \in WallClocks : buf = NewBuffer(wall)
    /\ ret = [some |-> FALSE, data |-> <<>>]
    /\ rdy = FALSE
    /\ now = 0
    /\ op = "new"
    /\ pushed = <<>>
    /\ chunks = <<>>
    /\ cap = 0
    /\ caps = {}
    /\ order \in IdOrders \cup {<<>>}
    /\ mixed = FALSE
    /\ first = 0
    /\ streak = 0

InitTwin ==
    /\ InitCalls
    /\ order = <<>>
    /\ \E other \in WallClocks :
          twin = [NoTwin EXCEPT !.wall = buf.oldest, !.other = other,
                                !.buf = NewBuffer(other)]

NextTwin == TwinPush \/ TwinFlush \/ TwinReady

SpecTwin == InitTwin /\ [][NextTwin]_vars

NextBuffer == BufPush \/ BufFlush

InitBuffer == InitCalls /\ order \in IdOrders /\ twin = NoTwin

SpecBuffer == InitBuffer /\ [][NextBuffer]_vars

NextFill == FillPush \/ FillFlush \/ FillReady

InitFill == InitCalls /\ order = <<>> /\ twin = NoTwin

SpecFill == InitFill /\ [][NextFill]_vars

\* Confirmations::new, in a build with one of the message sizes
Init ==
    /\ MAX_MESSAGE_SIZE \in MessageSizes
    /\ book = <<>>
    /\ next_index = 0
    /\ call = NoCall
    /\ got = [a \in Addrs |-> <<>>]
    /\ accepted = <<>>
    /\ now = 0
    /\ op = "new"
    /\ order \in IdOrders
    /\ buf = NewBuffer(0)
    /\ ret = [some |-> FALSE, data |-> <<>>]
    /\ rdy = FALSE
    /\ pushed = <<>>
    /\ chunks = <<>>
    /\ cap = 0
    /\ caps = {}
    /\ mixed = FALSE
    /\ first = 0
    /\ streak = 0
    /\ twin = NoTwin

Next == Received \/ SendConfirms

Spec == Init /\ [][Next]_vars

\* Confirmations with the periodic clean of the orchestrator
NextClean == Received \/ SendConfirms \/ Clean

\* clean reads no message size: one of them
InitClean == Init /\ MAX_MESSAGE_SIZE = 12

SpecClean == InitClean /\ [][NextClean]_vars

-----------------------------------------------------------------------------
(* Properties of one Buffer *)

RECURSIVE BytesOf(_)
\* the encodings of a sequence of ids, one after another
BytesOf(ids) == IF ids = <<>> THEN <<>> ELSE to_bytes(Head(ids)) \o BytesOf(Tail(ids))

RECURSIVE Concat(_)
\* a sequence of slices, one after another
Concat(ss) == IF ss = <<>> THEN <<>> ELSE Head(ss) \o Concat(Tail(ss))

\* the three bytes of `enc` stand next to each other somewhere in `data`
Occurs(enc, data) == \E i \in 1..(Len(data) - 2) : SubSeq(data, i, i + 2) = enc

\* the returned slices that hold the whole encoding of `id`
InChunks(id) == {i \in 1..Len(chunks) : Occurs(to_bytes(id), chunks[i])}

IsSuffix(s, whole) ==
    Len(s) <= Len(whole) /\ s = SubSeq(whole, Len(whole) - Len(s) + 1, Len(whole))

\* the latest call was a flush that returned None
Drained == op = "flush" /\ ~ret.some

\* C1: after pushes on an empty Buffer and then flush calls with one and the
\* same cap, made until flush returns None, every pushed id stands whole in
\* exactly one returned slice and the slices, concatenated in the order in
\* which they were returned, are the pushed bytes.
C1_DrainReproducesPushes ==
    (Drained /\ ~mixed /\ Cardinality(caps) = 1) =>
        /\ \A id \in Range(pushed) : Cardinality(InChunks(id)) = 1
        /\ Concat(chunks) = BytesOf(pushed)

\* C2: whatever the interleaving of push and flush calls, once flush returns
\* None every pushed id has been returned whole in exactly one slice.
C2_InterleavingExactlyOnce ==
    Drained => \A id \in Range(pushed) : Cardinality(InChunks(id)) = 1

\* C4: every slice flush returns is non-empty, no longer than the cap and a
\* whole number of 3-byte ids.
C4_ChunkLength ==
    (op = "flush" /\ ret.some) =>
        /\ Len(ret.data) > 0
        /\ Len(ret.data) <= cap
        /\ Len(ret.data) % 3 = 0

\* C5: ready(now) is false for an empty Vec; for a non-empty one it is true
\* exactly when the Vec holds at least 96 bytes or now is at least 100 ms
\* after the push that found the Vec empty; after n pushes at one time t0 onto
\* an empty Vec, ready(t0) is true exactly when n >= 32.
C5_ReadyPolicy ==
    op = "ready" =>
        /\ buf.buffer = <<>> => ~rdy
        /\ buf.buffer # <<>> => (rdy <=> (Len(buf.buffer) >= 96 \/ now >= first + 100))
        /\ (streak > 0 /\ now = first) => (rdy <=> streak >= 32)

\* ready(t0) has just answered true after 32 pushes at t0 onto an empty Vec
C5_Witness == op = "ready" /\ rdy /\ streak = 32 /\ now = first

\* C9: when flush has returned everything the Vec held, the flush that
\* follows it returns None and leaves the Vec empty; the push after that
\* leaves the Vec holding the pushed id alone, and the flush of that Vec
\* returns bytes of that id only (all three of them when the cap admits one id).
C9_FlushAllThenNone ==
    [][ /\ (op = "flush" /\ ret.some /\ buf.flushed = 0 /\ op' = "flush")
            => (~ret'.some /\ buf'.buffer = <<>>)
        /\ (Drained /\ op' = "push")
            => buf'.buffer = to_bytes(pushed'[Len(pushed')])
        /\ (op = "push" /\ streak = 1 /\ op' = "flush")
            => /\ ret'.some
               /\ IsSuffix(ret'.data, to_bytes(pushed[Len(pushed)]))
               /\ cap' >= 4 => ret'.data = to_bytes(pushed[Len(pushed)])
      ]_vars

\* one id pushed and returned whole, None, a second id pushed and returned alone
C9_Witness ==
    /\ op = "flush" /\ ret.some
    /\ Len(pushed) = 2
    /\ chunks = <<to_bytes(pushed[1]), to_bytes(pushed[2])>>

\* C11: only flush shortens the Vec; oldest changes only in a push that finds
\* the Vec empty, and then to the time argument of that push; so a Vec that
\* holds bytes has the oldest of the push that made it non-empty, whatever
\* pushes came later.
C11_LengthAndOldest ==
    [][ /\ Len(buf'.buffer) < Len(buf.buffer) => op' = "flush"
        /\ buf'.oldest # buf.oldest
              => (op' = "push" /\ buf.buffer = <<>> /\ buf'.oldest = now')
        /\ buf'.buffer # <<>> => buf'.oldest = first'
      ]_vars

\* a push later than the one that made the Vec non-empty has left oldest alone
C11_Witness ==
    /\ op = "push"
    /\ Len(buf.buffer) >= 6
    /\ buf.oldest < now
    /\ buf.oldest = first

RECURSIVE Reverse(_)
Reverse(s) == IF s = <<>> THEN <<>> ELSE Reverse(Tail(s)) \o <<Head(s)>>

\* the bytes of the Vec below the drain cursor
Kept(b) == truncate(b.buffer, b.flushed)

\* how often the byte `x` stands in `data`
Count(x, data) == Cardinality({i \in 1..Len(data) : data[i] = x})

\* C14: the first slice of a drain pass is the end of the Vec the pass found,
\* the last pushed bytes last; every later slice of the pass is the bytes
\* that stand in the Vec right before the slice returned before it; as long
\* as no push followed a returned slice, the bytes still below the cursor
\* followed by the returned slices, latest first, are the pushed bytes in the
\* order of the pushes.
C14_NewestEndFirst ==
    [][ /\ (op = "push" /\ op' = "flush" /\ ret'.some)
            => /\ IsSuffix(ret'.data, buf.buffer)
               /\ Kept(buf') \o ret'.data = buf.buffer
               /\ \/ IsSuffix(to_bytes(pushed[Len(pushed)]), ret'.data)
                  \/ IsSuffix(ret'.data, to_bytes(pushed[Len(pushed)]))
        /\ (op = "flush" /\ ret.some /\ op' = "flush" /\ ret'.some)
            => Kept(buf') \o ret'.data \o ret.data = buf.buffer
        /\ ~mixed' => Kept(buf') \o Concat(Reverse(chunks')) = BytesOf(pushed')
      ]_vars

\* a drain pass over the pushed bytes came to its end after at least two
\* slices with bytes in them, which are the pushed bytes only when read from
\* the latest slice back to the first
C14_Witness ==
    /\ Drained /\ ~mixed
    /\ Len(chunks) >= 2
    /\ \A i \in 1..Len(chunks) : chunks[i] # <<>>
    /\ Concat(Reverse(chunks)) = BytesOf(pushed)
    /\ Concat(chunks) # BytesOf(pushed)

\* C15: every flush call that returns a slice leaves fewer bytes below the
\* cursor than it found, so that repeated calls come to None.
C15_FlushShrinks ==
    [][ (op' = "flush" /\ ret'.some) => Len(Kept(buf')) < Len(Kept(buf)) ]_vars

\* C17: the cursor is within the Vec, and the bytes below it together with
\* the bytes of the returned slices are the pushed bytes, each as often as it
\* was pushed.
C17_CursorInvariant ==
    /\ 0 <= buf.flushed /\ buf.flushed <= Len(buf.buffer)
    /\ \A x \in Range(BytesOf(pushed)) \cup Range(buf.buffer) :
          Count(x, Kept(buf)) + Count(x, Concat(chunks)) = Count(x, BytesOf(pushed))

\* C13: two Buffers made at different wall-clock times and given the same
\* calls with the same time arguments give the same ready answers and return
\* the same slices.
C13_WallClockUnseen == rdy = twin.rdy /\ ret = twin.ret

\* ready has been asked of two empty Buffers whose oldest fields still hold
\* different wall-clock times, at a time at which one of them is of age
C13_Witness ==
    /\ op = "ready"
    /\ twin.wall # twin.other
    /\ buf.buffer = <<>> /\ twin.buf.buffer = <<>>
    /\ buf.oldest # twin.buf.oldest
    /\ \/ buf.oldest + MAX_BUFF_AGE <= now
       \/ twin.buf.oldest + MAX_BUFF_AGE <= now

-----------------------------------------------------------------------------
(* Properties of Confirmations *)

\* the datagrams of `ds` addressed to `addr`, in order
RECURSIVE To(_, _)
To(ds, addr) ==
    IF ds = <<>> THEN <<>>
    ELSE (IF Head(ds).addr = addr THEN <<Head(ds)>> ELSE <<>>) \o To(Tail(ds), addr)

\* the payloads of `ds`, the last one first, one after another
RECURSIVE PayloadsReversed(_)
PayloadsReversed(ds) ==
    IF ds = <<>> THEN <<>> ELSE PayloadsReversed(Tail(ds)) \o Head(ds).data

\* the accepted datagrams that carry `id` to `addr`
Carriers(addr, id) ==
    {i \in 1..Len(accepted) :
        accepted[i].addr = addr /\ Occurs(to_bytes(id), accepted[i].data)}

\* no record of the book has pending work
NothingPending == \A i \in 1..Len(book) : ~pending(book[i].conn)

\* every datagram accepted so far holds a whole number of ids
WholeIdsSoFar == \A i \in 1..Len(accepted) : Len(accepted[i].data) % 3 = 0

\* C3: every id passed to received is carried by exactly one accepted
\* Confirmation datagram, also after calls that returned a send error; stated
\* for the states in which no buffer has pending work any more, where no
\* later send_confirms can emit anything that is still missing, and for the
\* runs in which no datagram has cut an id in two.
C3_EveryIdCarriedOnce ==
    (NothingPending /\ WholeIdsSoFar) =>
        \A addr \in Addrs : \A id \in Range(got[addr]) :
            Cardinality(Carriers(addr, id)) = 1

\* C6: a send_confirms call that returns Ok leaves every peer that was ready
\* at the call's time with an empty buffer and no pending work, and what the
\* buffer held went out in Confirmation datagrams addressed to that peer.
C6_OkServicesEveryReadyPeer ==
    [][ (op' = "send_confirms" /\ call'.result = "Ok") =>
            \A i \in 1..Len(book) :
                ready(book[i].conn, now') =>
                    /\ book'[i].conn.buffer = <<>>
                    /\ ~pending(book'[i].conn)
                    /\ \A d \in Range(To(call'.handed, book[i].addr)) :
                           d.header = "Confirmation"
                    /\ PayloadsReversed(To(call'.handed, book[i].addr))
                           = truncate(book[i].conn.buffer, book[i].conn.flushed)
      ]_vars

\* C7: send_confirms returns the send error exactly when the channel refused
\* a datagram, and the refused datagram is the last one the call handed to
\* the channel: nothing is handed over after the refusal.
C7_ErrorReturnedAtOnce ==
    op = "send_confirms" =>
        /\ call.result \in {"Ok", "Err"}
        /\ call.result = "Err" <=> (call.chan.closes /\ Len(call.handed) > call.chan.left)
        /\ call.result = "Err" => Len(call.handed) = call.chan.left + 1

\* a call that returned the error, with bytes of the refused peer
\* still held back and a later peer of the sweep ready and untouched
C7_Witness ==
    /\ op = "send_confirms" /\ call.result = "Err"
    /\ Len(call.handed) >= 1
    /\ next_index >= 1 /\ next_index < Len(book)
    /\ book[next_index].conn.flushed > 0
    /\ ready(book[next_index + 1].conn, now)

\* C8: the payload of every accepted Confirmation datagram is a whole number
\* of 3-byte encodings, each the encoding of an id received from the
\* datagram's destination.
C8_WholeIdsOnly ==
    \A i \in 1..Len(accepted) :
        LET d == accepted[i]
        IN  /\ Len(d.data) % 3 = 0
            /\ \A k \in 0..((Len(d.data) \div 3) - 1) :
                   \E id \in Range(got[d.addr]) :
                       SubSeq(d.data, 3 * k + 1, 3 * k + 3) = to_bytes(id)

\* the record of `addr`, or a freshly made one when the book has none
RecordOf(records, addr) ==
    IF IndexOf(records, addr) = 0
    THEN [addr |-> addr, last_contact |-> 0, conn |-> NewBuffer(0)]
    ELSE records[IndexOf(records, addr)]

\* C10: received(time, addr, id) appends the three bytes of id to the buffer
\* of addr (made on the spot for an unknown addr), sets oldest to time when
\* that buffer was empty and leaves it alone otherwise, and changes the
\* record of no other peer.
C10_ReceivedFrame ==
    [][ op' = "received" =>
            LET before == RecordOf(book, call'.addr).conn
                after == RecordOf(book', call'.addr).conn
            IN  /\ IndexOf(book', call'.addr) # 0
                /\ after.buffer = before.buffer
                       \o << (call'.id \div 65536) % 256, (call'.id \div 256) % 256,
                              call'.id % 256 >>
                /\ after.oldest = IF before.buffer = <<>> THEN now' ELSE before.oldest
                /\ \A i \in 1..Len(book) :
                       book[i].addr # call'.addr => book'[i] = book[i]
                /\ Len(book') = IF IndexOf(book, call'.addr) = 0
                                THEN Len(book) + 1 ELSE Len(book)
      ]_vars

\* a reception, later than the peer's oldest pending one, with another peer known
C10_Witness ==
    /\ op = "received"
    /\ Len(book) = 2
    /\ Len(RecordOf(book, call.addr).conn.buffer) >= 6
    /\ RecordOf(book, call.addr).conn.oldest < now

\* the ids received from `addr` that no accepted datagram carries and that the
\* buffer `b` holds
Unemitted(addr, b) ==
    {id \in Range(got[addr]) :
        Carriers(addr, id) = {} /\ Occurs(to_bytes(id), b.buffer)}

\* C12: clean removes the record of a peer only when its buffer holds no id
\* that is still to be emitted and reports no pending work, and its last
\* contact is older than the staleness window; the records it keeps are
\* unchanged.
C12_CleanKeepsPendingPeers ==
    [][ op' = "clean" =>
            \A i \in 1..Len(book) :
                IF IndexOf(book', book[i].addr) = 0
                THEN /\ Unemitted(book[i].addr, book[i].conn) = {}
                     /\ book[i].conn.buffer = <<>>
                     /\ now' - book[i].last_contact > MAX_CONN_AGE
                ELSE RecordOf(book', book[i].addr) = book[i]
      ]_vars

\* clean has removed one peer and kept a stale one whose buffer holds an id
\* that no datagram carries yet
C12_Witness ==
    /\ op = "clean"
    /\ \E a \in Addrs : got[a] # <<>> /\ IndexOf(book, a) = 0
    /\ \E i \in 1..Len(book) :
          /\ now - book[i].last_contact > MAX_CONN_AGE
          /\ Unemitted(book[i].addr, book[i].conn) # {}

\* the buffer is empty, or holds fewer than 96 bytes the oldest of which was
\* pushed less than 100 ms before `time`
NotReadyAt(b, time) ==
    \/ b.buffer = <<>>
    \/ Len(b.buffer) < MAX_BUFF_SIZE /\ time < b.oldest + MAX_BUFF_AGE

\* C16: send_confirms hands the channel no datagram for a peer whose buffer
\* is not ready at the time of the call, and leaves that peer's record, with
\* the Vec, the cursor and oldest, as it was.
C16_UnreadyPeerUntouched ==
    [][ op' = "send_confirms" =>
            \A i \in 1..Len(book) :
                NotReadyAt(book[i].conn, now') =>
                    /\ book'[i] = book[i]
                    /\ To(call'.handed, book[i].addr) = <<>>
      ]_vars

\* a send_confirms call handed datagrams to the channel while a peer with
\* bytes in its buffer, too few and too young, got none and kept them
C16_Witness ==
    /\ op = "send_confirms"
    /\ call.handed # <<>>
    /\ \E i \in 1..Len(book) :
          /\ book[i].conn.buffer # <<>>
          /\ book[i].conn.flushed = Len(book[i].conn.buffer)
          /\ NotReadyAt(book[i].conn, now)
          /\ To(call.handed, book[i].addr) = <<>>
====
